---- MODULE Spec2Model ----
(***************************************************************************)
(* mcp-youtube: the protocol server (server.py) and the transcript tool    *)
(* (tools.py).                                                             *)
(*                                                                         *)
(* Python strings are modelled as sequences of lexical units (TLA+ strings *)
(* that are never split further): "a" in b is contiguous-subsequence       *)
(* search, a + b is \o, str.split cuts at a unit.                          *)
(***************************************************************************)
EXTENDS Integers, Sequences, FiniteSets, TLC

VARIABLES pc, memo, mapping, dirExists, cache, last

vars == <<pc, memo, mapping, dirExists, cache, last>>

(***************************************************************************)
(* Bounds                                                                  *)
(***************************************************************************)
\* longest transcript the external fetch returns
MaxLines == 2

(***************************************************************************)
(* str helpers                                                             *)
(***************************************************************************)
\* needle in hay (str.__contains__)
Contains(hay, needle) ==
  \E i \in 1..(Len(hay) + 1) :
     /\ i + Len(needle) - 1 <= Len(hay)
     /\ SubSeq(hay, i, i + Len(needle) - 1) = needle

\* index of the first unit of s at or after i that lies in stops, or Len(s)+1
RECURSIVE FindFirst(_, _, _)
FindFirst(s, i, stops) ==
  IF i > Len(s) THEN Len(s) + 1
  ELSE IF s[i] \in stops THEN i
  ELSE FindFirst(s, i + 1, stops)

\* index of the last unit of s equal to sep, or 0
RECURSIVE FindLast(_, _, _)
FindLast(s, i, sep) ==
  IF i < 1 THEN 0
  ELSE IF s[i] = sep THEN i
  ELSE FindLast(s, i - 1, sep)

\* s.split(sep)[-1]
SplitLast(s, sep) == SubSeq(s, FindLast(s, Len(s), sep) + 1, Len(s))

\* s.split(sep)[0]
SplitFirst(s, sep) == SubSeq(s, 1, FindFirst(s, 1, {sep}) - 1)

\* s.split(sep): the sequence of pieces
RECURSIVE Split(_, _)
Split(s, sep) ==
  LET j == FindFirst(s, 1, {sep})
  IN  IF j > Len(s) THEN <<s>>
      ELSE <<SubSeq(s, 1, j - 1)>> \o Split(SubSeq(s, j + 1, Len(s)), sep)

(***************************************************************************)
(* urllib.parse as _parse_youtube_url uses it                              *)
(***************************************************************************)
None == <<"<None>">>

YOUTU_BE == <<"youtu", ".be">>
YOUTUBE_COM == <<"youtube", ".com">>

\* urlparse(url): scheme, netloc, path, query, fragment
UrlParse(url) ==
  LET hasScheme == Len(url) >= 1 /\ url[1] \in {"https:", "http:"}
      rest0 == IF hasScheme THEN SubSeq(url, 2, Len(url)) ELSE url
      hasNet == Len(rest0) >= 2 /\ rest0[1] = "/" /\ rest0[2] = "/"
      netEnd == IF hasNet THEN FindFirst(rest0, 3, {"/", "?", "#"}) ELSE 1
      netloc == IF hasNet THEN SubSeq(rest0, 3, netEnd - 1) ELSE <<>>
      rest1 == SubSeq(rest0, netEnd, Len(rest0))
      fragAt == FindFirst(rest1, 1, {"#"})
      rest2 == SubSeq(rest1, 1, fragAt - 1)
      qAt == FindFirst(rest2, 1, {"?"})
  IN  [scheme |-> IF hasScheme THEN <<url[1]>> ELSE <<>>,
       netloc |-> netloc,
       path |-> SubSeq(rest2, 1, qAt - 1),
       query |-> SubSeq(rest2, qAt + 1, Len(rest2)),
       fragment |-> SubSeq(rest1, fragAt + 1, Len(rest1))]

\* parse_qsl(query): the (name, value) pairs with a non-blank value, in order
RECURSIVE ParseQsl(_)
ParseQsl(pieces) ==
  IF pieces = <<>> THEN <<>>
  ELSE LET nv == pieces[1]
           eq == FindFirst(nv, 1, {"="})
           name == SubSeq(nv, 1, eq - 1)
           value == SubSeq(nv, eq + 1, Len(nv))
           keep == nv # <<>> /\ eq <= Len(nv) /\ value # <<>>
       IN  (IF keep THEN <<[name |-> name, value |-> value]>> ELSE <<>>)
             \o ParseQsl(Tail(pieces))

\* parse_qs(query)[key][0], or None when key is not in the dict
QsFirst(query, key) ==
  LET pairs == ParseQsl(Split(query, "&"))
      hits == {i \in 1..Len(pairs) : pairs[i].name = key}
  IN  IF hits = {} THEN None
      ELSE pairs[CHOOSE i \in hits : \A j \in hits : i <= j].value

\* _parse_youtube_url(url)
ParseYoutubeUrl(url) ==
  IF Contains(url, YOUTU_BE)
  THEN SplitFirst(SplitLast(url, "/"), "?")
  ELSE LET parsed_url == UrlParse(url)
       IN  IF Contains(parsed_url.netloc, YOUTUBE_COM)
           THEN QsFirst(parsed_url.query, <<"v">>)
           ELSE None

\* `not video_id`
Falsy(s) == s = None \/ s = <<>>

(***************************************************************************)
(* URL inputs                                                              *)
(***************************************************************************)
Schemes == {<<"https:", "/", "/">>, <<"http:", "/", "/">>}

Hosts ==
  {<<"youtu", ".be">>, <<"www.", "youtube", ".com">>, <<"youtube", ".com">>,
   <<"example", ".com">>, <<"not", "youtube", ".com">>}

Paths ==
  {<<>>, <<"/", "ID1">>, <<"/", "watch">>, <<"/", "ID1", "/">>,
   <<"/", "youtu", ".be">>}

Queries ==
  {<<>>,
   <<"?", "v", "=", "ID1">>,
   <<"?", "v", "=", "ID1", "&", "t", "=", "123">>,
   <<"?", "t", "=", "123", "&", "v", "=", "ID2">>,
   <<"?", "t", "=", "123">>,
   <<"?", "v", "=">>,
   <<"?", "v", "=", "ID1", "&", "feature", "=", "youtu", ".be">>}

Urls == {s \o h \o p \o q : s \in Schemes, h \in Hosts, p \in Paths, q \in Queries}

(***************************************************************************)
(* json.dumps / json.loads on transcripts                                  *)
(*                                                                         *)
(* A transcript is a list of caption lines; a line is a dict, kept as its  *)
(* sequence of (key, value) members in insertion order.  The JSON text is  *)
(* a sequence of units: punctuation, and the units of the strings.         *)
(***************************************************************************)
QUOTE == "\""
BACKSLASH == "\\"

JStr(s) == [t |-> "str", v |-> s]
JNum0 == [t |-> "num", v |-> <<"0">>]
JNull == [t |-> "null", v |-> <<>>]

Member(k, v) == [k |-> k, v |-> v]

\* the escaping json.dumps applies inside a string
RECURSIVE Escape(_)
Escape(s) ==
  IF s = <<>> THEN <<>>
  ELSE (IF Head(s) \in {QUOTE, BACKSLASH} THEN <<BACKSLASH, Head(s)>> ELSE <<Head(s)>>)
         \o Escape(Tail(s))

DumpsStr(s) == <<QUOTE>> \o Escape(s) \o <<QUOTE>>

DumpsValue(v) ==
  CASE v.t = "str" -> DumpsStr(v.v)
    [] v.t = "num" -> v.v
    [] OTHER -> <<"null">>

\* members joined by ", ", each as "key": value
RECURSIVE DumpsMembers(_)
DumpsMembers(line) ==
  IF line = <<>> THEN <<>>
  ELSE DumpsStr(<<line[1].k>>) \o <<":", " ">> \o DumpsValue(line[1].v)
         \o (IF Len(line) > 1 THEN <<",", " ">> ELSE <<>>)
         \o DumpsMembers(Tail(line))

RECURSIVE DumpsItems(_)
DumpsItems(transcript) ==
  IF transcript = <<>> THEN <<>>
  ELSE <<"{">> \o DumpsMembers(transcript[1]) \o <<"}">>
         \o (IF Len(transcript) > 1 THEN <<",", " ">> ELSE <<>>)
         \o DumpsItems(Tail(transcript))

\* json.dumps(transcript, indent=None)
Dumps(transcript) == <<"[">> \o DumpsItems(transcript) \o <<"]">>

ParseFail == [ok |-> FALSE, val |-> <<>>, next |-> 0]
ParseOk(val, next) == [ok |-> TRUE, val |-> val, next |-> next]

At(s, i) == IF i >= 1 /\ i <= Len(s) THEN s[i] ELSE "<eof>"

\* the body of a JSON string from position i up to its closing quote
RECURSIVE ScanString(_, _, _)
ScanString(s, i, acc) ==
  IF i > Len(s) THEN ParseFail
  ELSE IF s[i] = QUOTE THEN ParseOk(acc, i + 1)
  ELSE IF s[i] = BACKSLASH
       THEN IF At(s, i + 1) \in {QUOTE, BACKSLASH}
            THEN ScanString(s, i + 2, Append(acc, s[i + 1]))
            ELSE ParseFail
  ELSE ScanString(s, i + 1, Append(acc, s[i]))

ParseString(s, i) == IF At(s, i) = QUOTE THEN ScanString(s, i + 1, <<>>) ELSE ParseFail

ParseValue(s, i) ==
  CASE At(s, i) = QUOTE ->
         LET r == ParseString(s, i)
         IN  IF r.ok THEN ParseOk(JStr(r.val), r.next) ELSE ParseFail
    [] At(s, i) = "0" -> ParseOk(JNum0, i + 1)
    [] At(s, i) = "null" -> ParseOk(JNull, i + 1)
    [] OTHER -> ParseFail

\* the members of an object from position i (a key) up to its closing brace
RECURSIVE ParseMembers(_, _, _)
ParseMembers(s, i, acc) ==
  LET k == ParseString(s, i)
  IN  IF ~k.ok \/ Len(k.val) # 1 \/ At(s, k.next) # ":" \/ At(s, k.next + 1) # " "
      THEN ParseFail
      ELSE LET v == ParseValue(s, k.next + 2)
               got == Append(acc, Member(k.val[1], v.val))
           IN  IF ~v.ok THEN ParseFail
               ELSE IF At(s, v.next) = "}" THEN ParseOk(got, v.next + 1)
               ELSE IF At(s, v.next) = "," /\ At(s, v.next + 1) = " "
                    THEN ParseMembers(s, v.next + 2, got)
               ELSE ParseFail

ParseObject(s, i) ==
  IF At(s, i) # "{" THEN ParseFail
  ELSE IF At(s, i + 1) = "}" THEN ParseOk(<<>>, i + 2)
  ELSE ParseMembers(s, i + 1, <<>>)

\* the items of an array from position i (an object) up to its closing bracket
RECURSIVE ParseItems(_, _, _)
ParseItems(s, i, acc) ==
  LET o == ParseObject(s, i)
  IN  IF ~o.ok THEN ParseFail
      ELSE IF At(s, o.next) = "]" THEN ParseOk(Append(acc, o.val), o.next + 1)
      ELSE IF At(s, o.next) = "," /\ At(s, o.next + 1) = " "
           THEN ParseItems(s, o.next + 2, Append(acc, o.val))
      ELSE ParseFail

\* json.loads(json_data): [ok, val]; not ok is JSONDecodeError
Loads(json_data) ==
  LET r == IF At(json_data, 1) # "[" THEN ParseFail
           ELSE IF At(json_data, 2) = "]" THEN ParseOk(<<>>, 3)
           ELSE ParseItems(json_data, 2, <<>>)
  IN  IF r.ok /\ r.next = Len(json_data) + 1 THEN r ELSE ParseFail

(***************************************************************************)
(* Results and exceptions                                                  *)
(***************************************************************************)
Return(content) == [kind |-> "return", type |-> "TextContent", msg |-> content]
Raise(type, msg) == [kind |-> "raise", type |-> type, msg |-> msg]

(***************************************************************************)
(* The external transcript API                                             *)
(***************************************************************************)
CaptionLines ==
  {<<Member("text", JStr(<<"a">>)), Member("start", JNum0)>>,
   <<Member("text", JStr(<<"b", QUOTE, BACKSLASH>>))>>,
   <<Member("start", JNum0)>>,
   <<Member("text", JNull)>>}

RECURSIVE SeqsUpTo(_, _)
SeqsUpTo(S, n) ==
  IF n = 0 THEN {<<>>}
  ELSE LET shorter == SeqsUpTo(S, n - 1)
       IN  shorter \cup {Append(t, x) : t \in shorter, x \in S}

\* what YouTubeTranscriptApi.get_transcript may do: raise, return something
\* that is no list, or return a list of caption lines (possibly empty)
FetchOutcomes ==
  {[kind |-> "raise", lines |-> <<>>], [kind |-> "nonlist", lines |-> <<>>]}
    \cup {[kind |-> "list", lines |-> t] : t \in SeqsUpTo(CaptionLines, MaxLines)}

\* the answers to enumerate for a run: all of them when the run calls the API
\* (called), one when it does not and so cannot depend on the answer
Unanswered == [kind |-> "raise", lines |-> <<>>]
Answers(called) == IF called THEN FetchOutcomes ELSE {Unanswered}

(***************************************************************************)
(* The transcript tool                                                     *)
(***************************************************************************)
HasKey(line, key) == \E i \in 1..Len(line) : line[i].k = key

\* line[key]: the last member with that key
GetItem(line, key) ==
  line[CHOOSE i \in 1..Len(line) :
         line[i].k = key /\ \A j \in 1..Len(line) : line[j].k = key => j <= i].v

RECURSIVE JoinSpace(_)
JoinSpace(texts) ==
  IF texts = <<>> THEN <<>>
  ELSE IF Len(texts) = 1 THEN texts[1]
  ELSE texts[1] \o <<" ">> \o JoinSpace(Tail(texts))

\* " ".join([line["text"] for line in transcript]), as a result
JoinTexts(transcript) ==
  IF \E i \in 1..Len(transcript) : ~HasKey(transcript[i], "text")
  THEN Raise("KeyError", <<"'text'">>)
  ELSE IF \E i \in 1..Len(transcript) : GetItem(transcript[i], "text").t # "str"
  THEN Raise("TypeError", <<"sequence item: expected str instance">>)
  ELSE Return(JoinSpace([i \in 1..Len(transcript) |-> GetItem(transcript[i], "text").v]))

NoFile == [exists |-> FALSE, data |-> <<>>]
File(data) == [exists |-> TRUE, data |-> data]

\* URLs the tool is called with
ToolUrls ==
  {<<"https:", "/", "/", "youtu", ".be", "/", "ID1">>,
   <<"https:", "/", "/", "www.", "youtube", ".com", "/", "watch", "?", "v", "=", "ID1", "&", "t", "=", "123">>,
   <<"https:", "/", "/", "www.", "youtube", ".com", "/", "watch", "?", "v", "=", "ID2">>,
   <<"https:", "/", "/", "example", ".com", "/", "video">>}

\* the names <video_id>.json can take under the transcripts directory
CacheIds == {ParseYoutubeUrl(u) : u \in ToolUrls} \ {None, <<>>}

\* mutant of Exists: the cache file is never found
ExistsNever(files, video_id) == FALSE

\* transcripts_dir.joinpath(f"{video_id}.json").exists()
Exists(files, video_id) == files[video_id].exists

\* download_closed_captions(args), args.video_url = video_url, when the
\* directory listing is files and the external API behaves as fetch
DownloadClosedCaptionsBody(video_url, fetch, files) ==
  LET video_id == ParseYoutubeUrl(video_url)
      base == [ran |-> "download_closed_captions", dir |-> TRUE, cache |-> files,
               video_id |-> video_id, hit |-> FALSE, fetched |-> FALSE,
               wrote |-> FALSE, result |-> Return(<<>>)]
  IN  IF Falsy(video_id)
      THEN [base EXCEPT !.result =
              Raise("ValueError", <<"Unrecognized YouTube URL: ">> \o video_url)]
      ELSE IF ~Exists(files, video_id)
      THEN IF fetch.kind = "raise"
           THEN [base EXCEPT !.fetched = TRUE,
                             !.result = Raise("TranscriptsDisabled",
                                              <<"Could not retrieve a transcript">>)]
           ELSE IF fetch.kind # "list" \/ fetch.lines = <<>>
           THEN [base EXCEPT !.fetched = TRUE,
                             !.result = Raise("ValueError",
                                              <<"No transcript found for the video.">>)]
           ELSE [base EXCEPT !.fetched = TRUE,
                             !.wrote = TRUE,
                             !.cache = [files EXCEPT ![video_id] = File(Dumps(fetch.lines))],
                             !.result = JoinTexts(fetch.lines)]
      ELSE LET transcript == Loads(files[video_id].data)
           IN  [base EXCEPT !.hit = TRUE,
                            !.result = IF transcript.ok THEN JoinTexts(transcript.val)
                                       ELSE Raise("JSONDecodeError", <<"Expecting value">>)]

\* the implementations registered with the singledispatch function tool_runner
Registry(cls) ==
  IF cls = "DownloadClosedCaptions" THEN "download_closed_captions" ELSE "tool_runner"

\* tool_runner(*posargs): dispatch on the class of the first positional
\* argument, then the call of the implementation found, which takes one
\* positional parameter
ToolRunner(posargs, fetch, dir, files) ==
  LET impl == Registry(posargs[1].cls)
      idle == [ran |-> "none", dir |-> dir, cache |-> files, video_id |-> None,
               hit |-> FALSE, fetched |-> FALSE, wrote |-> FALSE,
               result |-> Return(<<>>)]
  IN  IF Len(posargs) # 1
      THEN [idle EXCEPT !.result =
              Raise("TypeError",
                    <<impl, "() takes 1 positional argument but 2 were given">>)]
      ELSE IF impl = "tool_runner"
      THEN [idle EXCEPT !.ran = "tool_runner",
                        !.result = Raise("NotImplementedError",
                                         <<"Unsupported type: ", posargs[1].cls>>)]
      ELSE DownloadClosedCaptionsBody(posargs[1].video_url, fetch, files)

(***************************************************************************)
(* tools.py: the classes of the module and the tool definitions            *)
(***************************************************************************)
Class(name, mro, doc, required) ==
  [name |-> name, mro |-> mro, doc |-> doc, required |-> required]

\* inspect.getmembers(tools, inspect.isclass): sorted by name
ModuleClasses ==
  <<Class("BaseModel", {"BaseModel"}, <<>>, <<>>),
    Class("ConfigDict", {"ConfigDict"}, <<>>, <<>>),
    Class("DownloadClosedCaptions", {"DownloadClosedCaptions", "ToolArgs", "BaseModel"},
          <<"Download closed captions from YouTube video.">>, <<"video_url">>),
    Class("EmbeddedResource", {"EmbeddedResource", "BaseModel"}, <<>>, <<>>),
    Class("ImageContent", {"ImageContent", "BaseModel"}, <<>>, <<>>),
    Class("ServerSession", {"ServerSession"}, <<>>, <<>>),
    Class("TextContent", {"TextContent", "BaseModel"}, <<>>, <<>>),
    Class("Tool", {"Tool", "BaseModel"}, <<>>, <<>>),
    Class("ToolArgs", {"ToolArgs", "BaseModel"}, <<>>, <<>>),
    Class("YouTubeTranscriptApi", {"YouTubeTranscriptApi"}, <<>>, <<>>)>>

\* tool_description(args)
ToolDescription(args) ==
  [name |-> args.name, description |-> args.doc,
   inputSchema |-> [title |-> args.name, required |-> args.required]]

\* what the generator of enumerate_available_tools yields from classes on
RECURSIVE Yields(_)
Yields(classes) ==
  IF classes = <<>> THEN <<>>
  ELSE LET tool_args == Head(classes)
           description == ToolDescription(tool_args)
       IN  (IF "ToolArgs" \in tool_args.mro /\ tool_args.name # "ToolArgs"
            THEN <<[name |-> description.name, tool |-> description]>>
            ELSE <<>>) \o Yields(Tail(classes))

\* list(enumerate_available_tools()): functools.cache keeps the generator
\* object of the first call and hands the same object to every later call
EnumerateAvailableTools(m) ==
  LET generator == IF m.called THEN m.rest ELSE Yields(ModuleClasses)
  IN  [items |-> generator, memo |-> [called |-> TRUE, rest |-> <<>>]]

NoTool == [name |-> "<None>", description |-> <<>>,
           inputSchema |-> [title |-> "<None>", required |-> <<>>]]

\* mutant of MappingGet: a name that is no key resolves to the first tool
MappingGetOrFirst(map, name) ==
  LET hits == {i \in 1..Len(map) : map[i].name = name}
  IN  IF map = <<>> THEN NoTool
      ELSE IF hits = {} THEN map[1].tool
      ELSE map[CHOOSE i \in hits : \A j \in hits : j <= i].tool

\* mapping.get(name)
MappingGet(map, name) ==
  LET hits == {i \in 1..Len(map) : map[i].name = name}
  IN  IF hits = {} THEN NoTool
      ELSE map[CHOOSE i \in hits : \A j \in hits : j <= i].tool

\* tool_args(tool, **arguments): the class named tool.name, constructed from
\* the keyword arguments; [ok, args] or [~ok, exc]
ToolArgsBind(tool, items) ==
  LET failed(type, msg) ==
        [ok |-> FALSE, exc |-> Raise(type, msg),
         args |-> [cls |-> "<None>", video_url |-> <<>>]]
  IN  IF HasKey(items, "tool")
      THEN failed("TypeError", <<"tool_args() got multiple values for argument 'tool'">>)
      ELSE IF \E i \in 1..Len(tool.inputSchema.required) :
                 ~HasKey(items, tool.inputSchema.required[i])
      THEN failed("ValidationError", <<"video_url Field required">>)
      ELSE IF GetItem(items, "video_url").t # "str"
      THEN failed("ValidationError", <<"video_url Input should be a valid string">>)
      ELSE [ok |-> TRUE, exc |-> Return(<<>>),
            args |-> [cls |-> tool.name, video_url |-> GetItem(items, "video_url").v]]

\* app.request_context.session
Session == [cls |-> "ServerSession", video_url |-> <<>>]

\* mutant of Wrapped: the exception caught is raised again as it is
Reraised(e) == e

\* the RuntimeError call_tool raises from the exception e it caught
Wrapped(e) == Raise("RuntimeError", <<"Caught Exception. Error: ">> \o e.msg)

\* what call_tool ends with once the arguments are bound (b) and, when they
\* are, tool_runner has been called (r): lines 118 to 123
CallToolTry(b, r, dir, files) ==
  IF ~b.ok
  THEN [bound |-> TRUE, args |-> b.args, ran |-> "none", dir |-> dir, cache |-> files,
        fetched |-> FALSE, raised |-> b.exc, result |-> Wrapped(b.exc)]
  ELSE [bound |-> TRUE, args |-> b.args, ran |-> r.ran, dir |-> r.dir,
        cache |-> r.cache, fetched |-> r.fetched,
        raised |-> IF r.result.kind = "raise" THEN r.result ELSE Return(<<>>),
        result |-> IF r.result.kind = "raise" THEN Wrapped(r.result) ELSE r.result]

\* the try block of call_tool: tool_runner is called with the session first
CallToolBound(b, fetch, dir, files) ==
  CallToolTry(b, IF b.ok THEN ToolRunner(<<Session, b.args>>, fetch, dir, files) ELSE b,
              dir, files)

\* call_tool(name, arguments)
CallToolBody(name, arguments, fetch, dir, files, map) ==
  LET idle == [bound |-> FALSE, args |-> [cls |-> "<None>", video_url |-> <<>>],
               ran |-> "none", dir |-> dir, cache |-> files, fetched |-> FALSE,
               raised |-> Return(<<>>), result |-> Return(<<>>)]
  IN  IF arguments.kind # "dict"
      THEN [idle EXCEPT !.result = Raise("TypeError", <<"arguments must be dictionary">>)]
      ELSE IF MappingGet(map, name) = NoTool
      THEN [idle EXCEPT !.result = Raise("ValueError", <<"Unknown tool: ", name>>)]
      ELSE CallToolBound(ToolArgsBind(MappingGet(map, name), arguments.items),
                         fetch, dir, files)

\* mutant of PromptText: the template is no f-string, {url} stays as written
PromptTextLiteral(url) ==
  <<"Create a summary of the video ", "{url}",
    " using closed captions. Define key takeaways, ",
    "interesting facts, and the main topic of the video.">>

\* the text of the prompt message
PromptText(url) ==
  <<"Create a summary of the video ">> \o url
    \o <<" using closed captions. Define key takeaways, ",
         "interesting facts, and the main topic of the video.">>

\* get_prompt(name, args)
GetPromptBody(name, args) ==
  IF name = "YoutubeVideoSummary"
  THEN LET url == IF args.kind = "dict" /\ args.items # <<>> /\ HasKey(args.items, "yt_url")
                  THEN GetItem(args.items, "yt_url").v
                  ELSE None
       IN  IF Falsy(url)
           THEN Raise("ValueError", <<"yt_url is required">>)
           ELSE [kind |-> "return", type |-> "GetPromptResult",
                 msg |-> PromptText(url)]
  ELSE Raise("ValueError", <<"Unknown prompt: ", name>>)

(***************************************************************************)
(* Requests                                                                *)
(***************************************************************************)
ToolNames == {"DownloadClosedCaptions", "ToolArgs", "Tool", "download_closed_captions"}

Dict(items) == [kind |-> "dict", items |-> items]

\* the arguments of a call_tool request: any JSON value
RawArguments ==
  {[kind |-> "NoneType", items |-> <<>>], [kind |-> "list", items |-> <<>>],
   [kind |-> "str", items |-> <<>>]}
    \cup {Dict(<<>>), Dict(<<Member("video_url", JNum0)>>),
          Dict(<<Member("video_url", JNull)>>),
          Dict(<<Member("url", JStr(<<"https:", "/", "/", "youtu", ".be", "/", "ID1">>))>>)}
    \cup {Dict(<<Member("video_url", JStr(u))>>) : u \in ToolUrls}
    \cup {Dict(<<Member("video_url", JStr(u)), Member("lang", JStr(<<"en">>))>>) : u \in ToolUrls}
    \cup {Dict(<<Member("video_url", JStr(u)), Member("tool", JStr(<<"x">>))>>) : u \in ToolUrls}

PromptNames == {"YoutubeVideoSummary", "DownloadClosedCaptions", ""}

PromptUrls == ToolUrls \cup {<<>>, <<"X">>}

\* the args of a get_prompt request: None or a dict of strings
PromptArguments ==
  {[kind |-> "NoneType", items |-> <<>>], Dict(<<>>)}
    \cup {Dict(<<Member("yt_url", JStr(x))>>) : x \in PromptUrls}
    \cup {Dict(<<Member("video_url", JStr(x))>>) : x \in PromptUrls}
    \cup {Dict(<<Member("lang", JStr(<<"en">>)), Member("yt_url", JStr(x))>>) : x \in PromptUrls}

(***************************************************************************)
(* State                                                                   *)
(*   pc         "import" until server.py has been imported, then "serving" *)
(*   memo       functools.cache of enumerate_available_tools: whether it   *)
(*              was called, and what its generator has left to yield       *)
(*   mapping    the dict server.mapping, as its items in order             *)
(*   dirExists  whether <cache>/mcp-youtube/transcripts exists             *)
(*   cache      the file <video_id>.json in it, per video id               *)
(*   last       the latest operation with its outcome                      *)
(***************************************************************************)
Idle == [op |-> "none"]

Init ==
  /\ pc = "import"
  /\ memo = [called |-> FALSE, rest |-> <<>>]
  /\ mapping = <<>>
  /\ dirExists = FALSE
  /\ cache = [id \in CacheIds |-> NoFile]
  /\ last = Idle

\* server.py line 40, run when the module is imported
LoadModule ==
  /\ pc = "import"
  /\ LET e == EnumerateAvailableTools(memo)
     IN  /\ memo' = e.memo
         /\ mapping' = e.items
  /\ pc' = "serving"
  /\ last' = [op |-> "import"]
  /\ UNCHANGED <<dirExists, cache>>

\* a later list(enumerate_available_tools())
EnumerateTools ==
  /\ pc = "serving"
  /\ LET e == EnumerateAvailableTools(memo)
     IN  /\ memo' = e.memo
         /\ last' = [op |-> "enumerate_available_tools", result |-> e.items]
  /\ UNCHANGED <<pc, mapping, dirExists, cache>>

ListTools ==
  /\ pc = "serving"
  /\ last' = [op |-> "list_tools",
              result |-> [i \in 1..Len(mapping) |-> mapping[i].tool]]
  /\ UNCHANGED <<pc, memo, mapping, dirExists, cache>>

ListPrompts ==
  /\ pc = "serving"
  /\ last' = [op |-> "list_prompts",
              result |-> <<[name |-> "YoutubeVideoSummary",
                            arguments |-> <<[name |-> "yt_url", required |-> TRUE]>>]>>]
  /\ UNCHANGED <<pc, memo, mapping, dirExists, cache>>

GetPrompt ==
  /\ pc = "serving"
  /\ \E name \in PromptNames, args \in PromptArguments :
       last' = [op |-> "get_prompt", name |-> name, args |-> args,
                result |-> GetPromptBody(name, args)]
  /\ UNCHANGED <<pc, memo, mapping, dirExists, cache>>

\* a call_tool request; api is what the transcript API answers if it is called
CallTool ==
  /\ pc = "serving"
  /\ \E name \in ToolNames, arguments \in RawArguments :
     \E fetch \in Answers(CallToolBody(name, arguments, Unanswered,
                                      dirExists, cache, mapping).fetched) :
       \E r \in {CallToolBody(name, arguments, fetch, dirExists, cache, mapping)} :
           /\ dirExists' = r.dir
           /\ cache' = r.cache
           /\ last' = [op |-> "call_tool", name |-> name, arguments |-> arguments,
                       api |-> fetch, bound |-> r.bound, args |-> r.args, ran |-> r.ran,
                       fetched |-> r.fetched, raised |-> r.raised,
                       result |-> r.result]
  /\ UNCHANGED <<pc, memo, mapping>>

Next == LoadModule \/ EnumerateTools \/ ListTools \/ ListPrompts \/ GetPrompt \/ CallTool

Spec == Init /\ [][Next]_vars

(***************************************************************************)
(* The tool on its own: await tool_runner(DownloadClosedCaptions(...))     *)
(***************************************************************************)
InvokeTool ==
  \E video_url \in ToolUrls :
    \E fetch \in Answers(ToolRunner(<<[cls |-> "DownloadClosedCaptions",
                                       video_url |-> video_url]>>,
                                    Unanswered, dirExists, cache).fetched) :
      \E r \in {ToolRunner(<<[cls |-> "DownloadClosedCaptions", video_url |-> video_url]>>,
                           fetch, dirExists, cache)} :
        /\ dirExists' = r.dir
        /\ cache' = r.cache
        /\ last' = [op |-> r.ran, video_url |-> video_url, video_id |-> r.video_id,
                    hit |-> r.hit, fetched |-> r.fetched, wrote |-> r.wrote,
                    result |-> r.result]
        /\ UNCHANGED <<pc, memo, mapping>>

NextTool == InvokeTool

SpecTool == Init /\ [][NextTool]_vars

(***************************************************************************)
(* _parse_youtube_url on its own                                           *)
(***************************************************************************)
InitParse ==
  /\ pc = "import"
  /\ memo = [called |-> FALSE, rest |-> <<>>]
  /\ mapping = <<>>
  /\ dirExists = FALSE
  /\ cache = [id \in CacheIds |-> NoFile]
  /\ last \in {[op |-> "input", url |-> u] : u \in Urls}

ParseUrl ==
  /\ last.op = "input"
  /\ last' = [op |-> "_parse_youtube_url", url |-> last.url,
              video_id |-> ParseYoutubeUrl(last.url)]
  /\ UNCHANGED <<pc, memo, mapping, dirExists, cache>>

NextParse == ParseUrl

SpecParse == InitParse /\ [][NextParse]_vars

(***************************************************************************)
(* Properties of the server (checked under Spec)                           *)
(***************************************************************************)
IsCallTool == last.op = "call_tool"

\* name is a key of server.mapping
Registered(name) == \E i \in 1..Len(mapping) : mapping[i].name = name

\* the arguments are a dict whose video_url is a string
HasStringUrl(arguments) ==
  /\ arguments.kind = "dict"
  /\ HasKey(arguments.items, "video_url")
  /\ GetItem(arguments.items, "video_url").t = "str"

SuppliedUrl(arguments) == GetItem(arguments.items, "video_url").v

\* the API has a transcript with a text string in every line
Available(fetch) ==
  /\ fetch.kind = "list"
  /\ fetch.lines # <<>>
  /\ JoinTexts(fetch.lines).kind = "return"

UnknownTool(name) == Raise("ValueError", <<"Unknown tool: ", name>>)
NotADictionary == Raise("TypeError", <<"arguments must be dictionary">>)
IsToolExecutionError(result) ==
  /\ result.kind = "raise"
  /\ result.type = "RuntimeError"
  /\ Len(result.msg) >= 1
  /\ result.msg[1] = "Caught Exception. Error: "

\* C1: a call_tool request that names DownloadClosedCaptions with a dict whose
\* video_url is a recognized URL, and that does not find the transcript
\* unavailable (it is cached, or the API has it), runs the handler registered
\* for DownloadClosedCaptions and returns a text content item, not an error
C1_ValidCallReturnsHandlerContent ==
  (/\ IsCallTool
   /\ last.name = "DownloadClosedCaptions"
   /\ HasStringUrl(last.arguments)
   /\ ~Falsy(ParseYoutubeUrl(SuppliedUrl(last.arguments)))
   /\ last.fetched => Available(last.api))
  => /\ last.ran = "download_closed_captions"
     /\ last.result.kind = "return"
     /\ last.result.type = "TextContent"

RegisteredTypes ==
  {i \in 1..Len(ModuleClasses) :
     "ToolArgs" \in ModuleClasses[i].mro /\ ModuleClasses[i].name # "ToolArgs"}

\* items holds exactly one (name, definition) pair per registered type, named
\* as the type is
OnePairPerType(items) ==
  /\ \A c \in RegisteredTypes :
       Cardinality({i \in 1..Len(items) : items[i].name = ModuleClasses[c].name}) = 1
  /\ \A i \in 1..Len(items) :
       /\ \E c \in RegisteredTypes : items[i].name = ModuleClasses[c].name
       /\ items[i].tool.name = items[i].name

\* C6: every call of enumerate_available_tools, the first (whose items become
\* server.mapping) and every later one, yields exactly one (name, definition)
\* pair per registered ToolArgs subtype
C6_EveryEnumerationYieldsAllTools ==
  /\ pc = "serving" => OnePairPerType(mapping)
  /\ last.op = "enumerate_available_tools" => OnePairPerType(last.result)

\* C7: on a registered tool, arguments without video_url fail with an error
\* that is not the generic execution error, and no handler runs; arguments
\* whose video_url is a string bind to a ToolArgs value with that video_url
C7_BindingFailsDistinctly ==
  (IsCallTool /\ Registered(last.name) /\ last.arguments.kind = "dict")
  => /\ ~HasKey(last.arguments.items, "video_url")
          => /\ last.result.kind = "raise"
             /\ ~IsToolExecutionError(last.result)
             /\ last.ran = "none"
     /\ HasStringUrl(last.arguments)
          => last.args = [cls |-> last.name, video_url |-> SuppliedUrl(last.arguments)]

\* what call_tool makes of a tool_runner call that ended as r
AfterRun(r) ==
  CallToolTry([ok |-> TRUE, exc |-> Return(<<>>),
               args |-> [cls |-> "DownloadClosedCaptions", video_url |-> <<>>]],
              r, dirExists, cache).result

IsGetPrompt == last.op = "get_prompt"

HasYtUrl(args) == args.kind = "dict" /\ HasKey(args.items, "yt_url")
YtUrl(args) == GetItem(args.items, "yt_url").v

MissingArgument == Raise("ValueError", <<"yt_url is required">>)
UnknownPrompt(name) == Raise("ValueError", <<"Unknown prompt: ", name>>)

\* C9 as stated: get_prompt("YoutubeVideoSummary", {yt_url: X}) returns a
\* message whose text contains X for every string X; without yt_url it fails
\* with MissingArgument; any other name fails with UnknownPrompt
C9_PromptContainsAnyUrl ==
  IsGetPrompt
  => IF last.name # "YoutubeVideoSummary" THEN last.result = UnknownPrompt(last.name)
     ELSE IF HasYtUrl(last.args)
          THEN last.result.kind = "return" /\ Contains(last.result.msg, YtUrl(last.args))
          ELSE last.result = MissingArgument

\* C9 amended: get_prompt("YoutubeVideoSummary", {yt_url: X}) returns a message
\* whose text contains X for every non-empty string X; with yt_url absent or
\* empty, or without an argument mapping, it fails with MissingArgument; any
\* other name fails with UnknownPrompt whatever the arguments are
C9_PromptContainsNonEmptyUrl ==
  IsGetPrompt
  => IF last.name # "YoutubeVideoSummary" THEN last.result = UnknownPrompt(last.name)
     ELSE IF HasYtUrl(last.args) /\ YtUrl(last.args) # <<>>
          THEN /\ last.result.kind = "return"
               /\ last.result.type = "GetPromptResult"
               /\ Contains(last.result.msg, YtUrl(last.args))
          ELSE last.result = MissingArgument

C9_Witness ==
  /\ IsGetPrompt
  /\ last.name = "YoutubeVideoSummary"
  /\ HasYtUrl(last.args)
  /\ Len(YtUrl(last.args)) > 1
  /\ last.result.kind = "return"
  /\ Contains(last.result.msg, YtUrl(last.args))

(***************************************************************************)
(* Properties of the transcript tool (checked under SpecTool)              *)
(***************************************************************************)
RanTool(l) == l.op = "download_closed_captions"

\* the step is an invocation for a video id that the one before it was for too
SameVideoAgain ==
  /\ RanTool(last)
  /\ RanTool(last')
  /\ ~Falsy(last.video_id)
  /\ last'.video_id = last.video_id

\* the outcome the cache file of video_id determines
CachedOutcome(files, video_id) ==
  IF Loads(files[video_id].data).ok
  THEN JoinTexts(Loads(files[video_id].data).val)
  ELSE Raise("JSONDecodeError", <<"Expecting value">>)

\* C3 as stated: of two successive invocations for one video id, the first
\* finding no cache file, the first fetches and writes the cache file, the
\* second reads it without fetching, and both return the same text; and the
\* API is only called by an invocation that finds no cache file
C3_TwoInvocationsOneFetch ==
  [][/\ (SameVideoAgain /\ ~last.hit)
        => /\ last.fetched /\ last.wrote
           /\ last'.hit /\ ~last'.fetched
           /\ last'.result = last.result
     /\ (RanTool(last') /\ last'.fetched) => ~cache[last'.video_id].exists]_vars

\* C3 amended: of two successive invocations for one video id, the first
\* finding no cache file and getting a non-empty list from the API (so that it
\* writes the cache file), exactly the first calls the API, the second reads
\* the cache file, and both end alike: with the same text or, when a line has
\* no text string, the same error.  A cache file is never rewritten, and every
\* invocation that wrote or read one ends as that file determines.  The API is
\* called by exactly the invocations, for a recognized URL, that find no cache
\* file
C3_OneFetchOnceCached ==
  [][/\ (SameVideoAgain /\ ~last.hit /\ last.wrote)
        => /\ last.fetched
           /\ last'.hit /\ ~last'.fetched /\ ~last'.wrote
           /\ last'.result = last.result
     /\ \A id \in CacheIds : cache[id].exists => cache'[id] = cache[id]
     /\ (RanTool(last') /\ (last'.wrote \/ last'.hit))
        => /\ cache'[last'.video_id].exists
           /\ last'.result = CachedOutcome(cache', last'.video_id)
     /\ RanTool(last')
        => (last'.fetched <=> (~Falsy(last'.video_id) /\ ~cache[last'.video_id].exists))
     /\ RanTool(last') => (last'.hit <=> (~Falsy(last'.video_id) /\ cache[last'.video_id].exists))]_vars

C3_Witness ==
  /\ RanTool(last)
  /\ last.hit
  /\ ~last.fetched
  /\ last.result.kind = "return"
  /\ Contains(last.result.msg, <<QUOTE, BACKSLASH, " ">>)

\* C4: an invocation from whose video_url no identifier is extracted fails with
\* "Unrecognized YouTube URL", does not call the API and leaves the cache
\* files and the existence of the transcripts directory as they were
C4_UnrecognizedUrlTouchesNothing ==
  [][(RanTool(last') /\ Falsy(last'.video_id))
     => /\ last'.result = Raise("ValueError",
                                <<"Unrecognized YouTube URL: ">> \o last'.video_url)
        /\ ~last'.fetched
        /\ cache' = cache
        /\ dirExists' = dirExists]_vars

\* C10: an invocation that ends in an error creates or changes no cache file
C10_FailedInvocationLeavesCache ==
  [][(RanTool(last') /\ last'.result.kind = "raise") => cache' = cache]_vars

(***************************************************************************)
(* Properties of _parse_youtube_url (checked under SpecParse)              *)
(***************************************************************************)
ShortLinkHosts == {<<"youtu", ".be">>}
CanonicalHosts == {<<"youtube", ".com">>, <<"www.", "youtube", ".com">>}

\* the parser the specification describes: the final path segment of a URL
\* whose host is youtu.be; the v parameter of a URL whose host is youtube.com;
\* nothing for any other URL
ReferenceParse(url) ==
  IF UrlParse(url).netloc \in ShortLinkHosts
  THEN SplitLast(UrlParse(url).path, "/")
  ELSE IF UrlParse(url).netloc \in CanonicalHosts
  THEN QsFirst(UrlParse(url).query, <<"v">>)
  ELSE None

\* C5: _parse_youtube_url agrees with the reference parser on every URL
C5_ParserAgreesWithReference ==
  last.op = "_parse_youtube_url" => last.video_id = ReferenceParse(last.url)

====
